---- MODULE Spec2Model ----
(***************************************************************************)
(* A state-machine model of src/mcbs.js (MCBS - Minecraft Bot Script).     *)
(*                                                                         *)
(* One action per event handler, timer callback or API method.  The        *)
(* JavaScript run-to-completion rule makes every handler atomic: an async  *)
(* method is cut at its awaits, each piece being one action.               *)
(*                                                                         *)
(* Lengths and speeds are fixed-point numbers in hundredths of a block     *)
(* (gravity -0.08 is -8, the ground probe offset -0.1 is -10).             *)
(*                                                                         *)
(* written and emitted hold what the LAST step wrote to the client         *)
(* (client.write) and emitted on the bot (this.emit); every action         *)
(* overwrites both.                                                        *)
(***************************************************************************)
EXTENDS Integers, Sequences, FiniteSets, TLC

VARIABLES
    connected,      \* MinecraftBot.connected
    ended,          \* the client's connection is over (kick packet or client.end)
    health,         \* MinecraftBot.health
    position,       \* MinecraftBot.position  <<x, y, z>>
    velocity,       \* MinecraftBot.velocity  <<x, y, z>>
    yaw,            \* MinecraftBot.yaw, in quarter turns
    blocks,         \* World.blocks: a Map from key to block type
    digs,           \* the mineBlock calls in flight: listener and timer
    slots,          \* Inventory.slots
    selectedSlot,   \* Inventory.selectedSlot
    craftingTablePos, \* Crafting.craftingTablePos
    crafts,         \* the craft calls suspended in _openCraftingTable
    entities,       \* EntityTracker.entities: a Map from id to entity
    players,        \* EntityTracker.players: a Map from id to player
    target,         \* Combat.target
    jumpCooldown,   \* Physics.jumpCooldown
    attackCooldown, \* Combat.attackCooldown
    outcome,        \* how the last API call returned
    written,        \* commands the last step wrote to the client
    emitted         \* events the last step emitted on the bot

vars == <<connected, ended, health, position, velocity, yaw, blocks, digs,
          slots, selectedSlot, craftingTablePos, crafts, entities, players,
          target, jumpCooldown, attackCooldown, outcome, written, emitted>>

\* the variables of the simulation (Physics, Combat, EntityTracker)
simVars == <<position, velocity, yaw, entities, players, target, jumpCooldown,
             attackCooldown>>
\* the variables of the pending actions (mineBlock, craft) and the inventory
actVars == <<digs, slots, selectedSlot, craftingTablePos, crafts>>

----------------------------------------------------------------------------
(* Bounds of the model *)

MaxDigs == 2        \* mineBlock calls in flight at once
MaxCrafts == 1      \* craft calls suspended at once
NumSlots == 2       \* inventory slots modelled (the code has 46)
MaxH == 26          \* |x| and |z| of the bot stay within this
MaxY == 250         \* |y| of the bot stays within this
MaxFall == 24       \* the downward speed stays within this

----------------------------------------------------------------------------
(* Values *)

\* block locations carried by block_change packets and mineBlock calls
BlockLocs == { <<0, 100, 0>>, <<0, 0, 0>> }

\* block type ids: 0 is air
BlockTypes == {0, 1}

\* health values carried by health packets
HealthValues == {-1, 0, 20}

Vec(x, y, z) == <<x, y, z>>
VecAdd(a, b) == <<a[1] + b[1], a[2] + b[2], a[3] + b[3]>>
Offset(p, dx, dy, dz) == <<p[1] + dx, p[2] + dy, p[3] + dz>>

----------------------------------------------------------------------------
(* World *)

\* `${position.x},${position.y},${position.z}`: the decimal text of the
\* three numbers, separated by commas
DigitChar(d) == <<"0", "1", "2", "3", "4", "5", "6", "7", "8", "9">>[d + 1]

RECURSIVE Digits(_)
Digits(n) ==
    IF n < 10 THEN <<DigitChar(n)>>
    ELSE Append(Digits(n \div 10), DigitChar(n % 10))

\* a number in hundredths printed as JavaScript prints it: sign, integer
\* part and the fraction without trailing zeros
NumText(n) ==
    LET a == IF n < 0 THEN -n ELSE n
        f == a % 100
        frac == IF f = 0 THEN <<>>
                ELSE IF f % 10 = 0 THEN <<".", DigitChar(f \div 10)>>
                ELSE <<".", DigitChar(f \div 10), DigitChar(f % 10)>>
    IN  (IF n < 0 THEN <<"-">> ELSE <<>>) \o Digits(a \div 100) \o frac

Key(p) == NumText(p[1]) \o <<",">> \o NumText(p[2]) \o <<",">> \o NumText(p[3])

\* a setBlock that keeps the first type written to a key
SetBlockIfAbsent(b, p, t) ==
    [k \in DOMAIN b \cup {Key(p)} |-> IF k \in DOMAIN b THEN b[k] ELSE t]

\* World.setBlock: this.blocks.set(key, blockType)
SetBlock(b, p, t) == [k \in DOMAIN b \cup {Key(p)} |-> IF k = Key(p) THEN t ELSE b[k]]

\* World.getBlock: this.blocks.get(key) || 0
GetBlock(b, p) == IF Key(p) \in DOMAIN b THEN b[Key(p)] ELSE 0

----------------------------------------------------------------------------
(* Initial state: the constructors, lines 32-60, 263-267, 355-358,         *)
(* 431-434, 546-550, 640-646, 786-789                                      *)

NoDig == [loc |-> <<0, 0, 0>>, listening |-> FALSE, resolves |-> 0, timer |-> FALSE]
NoItem == [name |-> "none", count |-> 0]
NoPos == <<>>
\* Combat.target = null; the ids of entities are positive
NoTarget == [id |-> 0, ref |-> 0]

Init ==
    /\ connected = FALSE
    /\ ended = FALSE
    /\ health = 20
    /\ position = Vec(0, 0, 0)
    /\ velocity = Vec(0, 0, 0)
    /\ yaw = 0
    /\ blocks = <<>>
    /\ digs = [i \in 1..MaxDigs |-> NoDig]
    /\ slots = [i \in 1..NumSlots |-> NoItem]
    /\ selectedSlot = 0
    /\ craftingTablePos = NoPos
    /\ crafts = <<>>
    /\ entities = <<>>
    /\ players = <<>>
    /\ target = NoTarget
    /\ jumpCooldown = 0
    /\ attackCooldown = 0
    /\ outcome = "none"
    /\ written = <<>>
    /\ emitted = <<>>

\* this.emit(name), and this.emit('blockUpdate', pos, block): `stored` is
\* what getBlock(pos) returns to the listeners the emit runs
Event(name) == [event |-> name]
BlockUpdate(pos, block, stored) ==
    [event |-> "blockUpdate", pos |-> pos, block |-> block, stored |-> stored]

\* a step that is no API call, writes `w` and emits `e`
Out(o, w, e) == outcome' = o /\ written' = w /\ emitted' = e

\* packets reach the handlers while the connection is up
Receiving == connected /\ ~ended

----------------------------------------------------------------------------
(* The client's connection: _setupClient, disconnect *)

\* client.on('connect')
Connect ==
    /\ ~connected /\ ~ended
    /\ connected' = TRUE
    /\ Out("none", <<>>, <<Event("connect")>>)
    /\ UNCHANGED <<ended, health, blocks, simVars, actVars>>

\* what the 'disconnect' handler makes of this.connected
ConnectedAfterDisconnect == FALSE

\* client.on('disconnect')
Disconnect ==
    /\ Receiving
    /\ connected' = ConnectedAfterDisconnect
    /\ ended' = TRUE
    /\ Out("none", <<>>, <<Event("disconnect")>>)
    /\ UNCHANGED <<health, blocks, simVars, actVars>>

\* MinecraftBot.disconnect: client.end(reason) closes the connection; no
\* 'disconnect' event follows it, so this.connected stays as it is
BotDisconnect ==
    /\ connected /\ ~ended
    /\ ended' = TRUE
    /\ Out("ok", <<>>, <<>>)
    /\ UNCHANGED <<connected, health, blocks, simVars, actVars>>

\* the disconnect event has been processed
Disconnected == ended /\ ~connected

----------------------------------------------------------------------------
(* Health *)

\* whether the 'health' handler emits 'death'
IsDeath(h) == h <= 0

\* client.on('health')
Health(h) ==
    /\ Receiving
    /\ health' = h
    /\ Out("none", <<>>,
           IF IsDeath(h) THEN <<Event("health"), Event("death")>>
           ELSE <<Event("health")>>)
    /\ UNCHANGED <<connected, ended, blocks, simVars, actVars>>

----------------------------------------------------------------------------
(* Mining: mineBlock and the block_change handler *)

StartDig(l) == [cmd |-> "block_dig", status |-> 0, location |-> l]
FinishDig(l) == [cmd |-> "block_dig", status |-> 2, location |-> l]

\* the promise of a mineBlock call is pending exactly while its
\* onBlockBreak listener is registered
Pending(d) == d.listening

\* a mineBlock call in flight on which resolve() has not been called
Unresolved(d) == d # NoDig /\ d.resolves = 0

FreeDigs == {i \in 1..MaxDigs : digs[i] = NoDig}

\* a call whose promise is resolved and whose timer has fired holds no state
Settle(d) == IF ~d.listening /\ ~d.timer THEN NoDig ELSE d

\* mineBlock(x, y, z): write start-dig, register onBlockBreak, set the timer
MineBlock(l) ==
    /\ FreeDigs # {}
    /\ LET i == CHOOSE j \in FreeDigs : \A k \in FreeDigs : j <= k
       IN  digs' = [digs EXCEPT ![i] = [loc |-> l, listening |-> TRUE,
                                        resolves |-> 0, timer |-> TRUE]]
    /\ Out("pending", <<StartDig(l)>>, <<>>)
    /\ UNCHANGED <<connected, ended, health, blocks, simVars, slots,
                   craftingTablePos, crafts, selectedSlot>>

\* onBlockBreak: pos.x === x && pos.y === y && pos.z === z
OnBlockBreakMatches(d, pos, block) == pos = d.loc

\* onBlockBreak that calls resolve() and stays registered
ResolveKeepListener(d) == [d EXCEPT !.resolves = @ + 1]

\* the body of a matching onBlockBreak:
\* this.removeListener('blockUpdate', onBlockBreak); resolve()
Resolve(d) == [d EXCEPT !.listening = FALSE, !.resolves = @ + 1]

\* the blockUpdate listeners run on (pos, block): each matching onBlockBreak
\* removes itself and resolves its promise
EmitBlockUpdate(ds, pos, block) ==
    [i \in 1..MaxDigs |->
        IF ds[i].listening /\ OnBlockBreakMatches(ds[i], pos, block)
        THEN Settle(Resolve(ds[i]))
        ELSE ds[i]]

\* an emit that runs before world.setBlock
BlocksBeforeSet(b, pos, block) == b

\* the block map the blockUpdate listeners of a block_change run on:
\* this.world.setBlock(pos, block) comes before this.emit('blockUpdate', ..)
BlocksAtEmit(b, pos, block) == SetBlock(b, pos, block)

\* client.on('block_change')
BlockChange(l, t) ==
    /\ Receiving
    /\ blocks' = SetBlock(blocks, l, t)
    /\ digs' = EmitBlockUpdate(digs, l, t)
    /\ Out("none", <<>>,
           <<BlockUpdate(l, t, GetBlock(BlocksAtEmit(blocks, l, t), l))>>)
    /\ UNCHANGED <<connected, ended, health, simVars, slots,
                   craftingTablePos, crafts, selectedSlot>>

\* the setTimeout callback of mineBlock: write finish-dig
DigTimeout(i) ==
    /\ digs[i].timer
    /\ digs' = [digs EXCEPT ![i] = Settle([digs[i] EXCEPT !.timer = FALSE])]
    /\ Out("none", <<FinishDig(digs[i].loc)>>, <<>>)
    /\ UNCHANGED <<connected, ended, health, blocks, simVars, slots,
                   craftingTablePos, crafts, selectedSlot>>

----------------------------------------------------------------------------
(* Position correction *)

\* positions carried by position packets: y = 1.1, whose ground probe
\* (y - 0.1) is the very key of the block at <<0, 100, 0>>, and y = 2, the
\* top face of that block
PacketPositions == { Vec(0, 110, 0), Vec(0, 200, 0) }

\* this.position.add in place of this.position.set
PositionAdd(old, p) == VecAdd(old, p)

\* this.position.set(packet.x, packet.y, packet.z)
PositionSet(old, p) == p

\* a position handler that also stops the bot
PositionStops(p, w) ==
    /\ Receiving
    /\ position' = PositionSet(position, p)
    /\ yaw' = w
    /\ velocity' = Vec(0, 0, 0)
    /\ Out("none", <<>>, <<Event("position")>>)
    /\ UNCHANGED <<connected, ended, health, blocks, entities, players,
                   target, jumpCooldown, attackCooldown, actVars>>

\* client.on('position')
Position(p, w) ==
    /\ Receiving
    /\ position' = PositionSet(position, p)
    /\ yaw' = w
    /\ Out("none", <<>>, <<Event("position")>>)
    /\ UNCHANGED <<connected, ended, health, blocks, velocity, entities,
                   players, target, jumpCooldown, attackCooldown, actVars>>

----------------------------------------------------------------------------
(* Inventory *)

Items == { NoItem,
           [name |-> "planks", count |-> 1],
           [name |-> "planks", count |-> 2],
           [name |-> "planks", count |-> 4],
           [name |-> "stick", count |-> 1] }

\* bot.client.on('set_slot')
SetSlot(i, item) ==
    /\ Receiving
    /\ slots' = [slots EXCEPT ![i] = item]
    /\ Out("none", <<>>, <<>>)
    /\ UNCHANGED <<connected, ended, health, blocks, simVars, digs,
                   craftingTablePos, crafts, selectedSlot>>

\* bot.client.on('window_items')
WindowItems(items) ==
    /\ Receiving
    /\ slots' = items
    /\ Out("none", <<>>, <<>>)
    /\ UNCHANGED <<connected, ended, health, blocks, simVars, digs,
                   craftingTablePos, crafts, selectedSlot>>

\* Inventory.findItem: the first slot holding an item of that name, or 0
FindItem(sl, itemName) ==
    LET hits == {i \in 1..Len(sl) : sl[i] # NoItem /\ sl[i].name = itemName}
    IN  IF hits = {} THEN 0 ELSE CHOOSE i \in hits : \A j \in hits : i <= j

\* the hotbar is the slots 0 to 8
LastHotbarSlot == 8
\* the slots selectSlot is called with: the hotbar and one slot either side
SlotInputs == (0 - 1)..(LastHotbarSlot + 1)

HeldItemSlot(slot) == [cmd |-> "held_item_slot", slot |-> slot]

\* a check of the upper end only
SlotAboveHotbar(slot) == slot > LastHotbarSlot

\* the check of selectSlot: slot < 0 || slot > 8
SlotOutOfHotbar(slot) == slot < 0 \/ slot > LastHotbarSlot

\* Inventory.selectSlot(slot)
SelectSlot(slot) ==
    /\ IF SlotOutOfHotbar(slot)
       THEN /\ Out("SlotOutOfRange", <<>>, <<>>)
            /\ UNCHANGED selectedSlot
       ELSE /\ selectedSlot' = slot
            /\ Out("ok", <<HeldItemSlot(slot)>>, <<>>)
    /\ UNCHANGED <<connected, ended, health, blocks, simVars, digs, slots,
                   craftingTablePos, crafts>>

----------------------------------------------------------------------------
(* Crafting *)

\* Crafting.recipes.  _loadRecipes sets 'stick'; 'chest' stands for the
\* recipes with requiresCraftingTable the full recipe data holds, the ones
\* craft sends through _openCraftingTable
Recipes ==
    [ stick |-> [ingredients |-> <<[item |-> "planks", count |-> 2]>>,
                 requiresCraftingTable |-> FALSE],
      chest |-> [ingredients |-> <<[item |-> "planks", count |-> 2],
                                   [item |-> "stick", count |-> 1]>>,
                 requiresCraftingTable |-> TRUE] ]

ItemNames == {"stick", "chest", "torch"}
CraftCounts == {1, 2}
TablePositions == { Vec(100, 100, 0), Vec(400, 100, 0) }

\* Crafting.setCraftingTablePosition
SetCraftingTablePosition(p) ==
    /\ craftingTablePos' = p
    /\ Out("ok", <<>>, <<>>)
    /\ UNCHANGED <<connected, ended, health, blocks, simVars, digs, slots,
                   crafts, selectedSlot>>

\* the check for one craft, whatever the count asked for
TooFewForOne(item, ingredient, count) == item.count < ingredient.count

\* found.item.count < ingredient.count * count, for a found item
TooFew(item, ingredient, count) == item.count < ingredient.count * count

\* the ingredient check of craft: the first ingredient that fails it, or 0
FirstMissing(sl, recipe, count) ==
    LET bad == {k \in 1..Len(recipe.ingredients) :
                  LET f == FindItem(sl, recipe.ingredients[k].item)
                  IN  f = 0 \/ TooFew(sl[f], recipe.ingredients[k], count)}
    IN  IF bad = {} THEN 0 ELSE CHOOSE k \in bad : \A j \in bad : k <= j

\* the squared distance of two points, and distance > 3 blocks
Dist2(a, b) ==
    (a[1] - b[1]) * (a[1] - b[1]) + (a[2] - b[2]) * (a[2] - b[2])
      + (a[3] - b[3]) * (a[3] - b[3])
Reach == 3
FartherThanReach(a, b) == Dist2(a, b) > (Reach * 100) * (Reach * 100)

WindowClick(w, s, a, item) ==
    [cmd |-> "window_click", windowId |-> w, slot |-> s, action |-> a,
     item |-> item]
BlockPlace(l) == [cmd |-> "block_place", location |-> l]
CloseWindow == [cmd |-> "close_window", windowId |-> 1]

\* the clicks of craft, lines 693-715: one per ingredient, then the result.
\* The slot of an ingredient is the 0-based index findItem returns.
CraftClicks(sl, recipe) ==
    LET w == IF recipe.requiresCraftingTable THEN 1 ELSE 0
        n == Len(recipe.ingredients)
    IN  [k \in 1..n |->
            LET f == FindItem(sl, recipe.ingredients[k].item)
            IN  WindowClick(w, f - 1, k - 1, sl[f])]
        \o <<WindowClick(w, 0, n, NoItem)>>

\* what craft does up to its first await (or its return): the error it
\* throws, or the commands it writes and where it suspends
CraftStart(itemName, count) ==
    IF itemName \notin DOMAIN Recipes
    THEN [outcome |-> "UnknownRecipe", written |-> <<>>, phase |-> "none"]
    ELSE LET recipe == Recipes[itemName] IN
    IF recipe.requiresCraftingTable /\ craftingTablePos = NoPos
    THEN [outcome |-> "StationRequired", written |-> <<>>, phase |-> "none"]
    ELSE IF FirstMissing(slots, recipe, count) # 0
    THEN [outcome |-> "MissingIngredient", written |-> <<>>, phase |-> "none"]
    ELSE IF ~recipe.requiresCraftingTable
    THEN [outcome |-> "ok", written |-> CraftClicks(slots, recipe),
          phase |-> "none"]
    ELSE IF FartherThanReach(position, craftingTablePos)
    THEN [outcome |-> "pending", written |-> <<>>, phase |-> "moving"]
    ELSE [outcome |-> "pending", written |-> <<BlockPlace(craftingTablePos)>>,
          phase |-> "waitOpen"]

\* Crafting.craft(itemName, count)
Craft(itemName, count) ==
    LET r == CraftStart(itemName, count) IN
    /\ r.phase # "none" => Len(crafts) < MaxCrafts
    /\ crafts' = IF r.phase = "none" THEN crafts
                 ELSE Append(crafts, [item |-> itemName, count |-> count,
                                      phase |-> r.phase])
    /\ Out(r.outcome, r.written, <<>>)
    /\ UNCHANGED <<connected, ended, health, blocks, simVars, digs, slots,
                   craftingTablePos, selectedSlot>>


\* the first suspended craft that is in `phase`, or 0
FirstIn(phase) ==
    LET at == {i \in 1..Len(crafts) : crafts[i].phase = phase}
    IN  IF at = {} THEN 0 ELSE CHOOSE i \in at : \A j \in at : i <= j

Remove(seq, i) == [k \in 1..(Len(seq) - 1) |-> IF k < i THEN seq[k] ELSE seq[k + 1]]

\* bot.moveTo resolves (pathfinder.goto, a collaborator outside this file):
\* _openCraftingTable right-clicks the table and waits for 'window_open'
GotoResolves ==
    /\ FirstIn("moving") # 0
    /\ crafts' = [crafts EXCEPT ![FirstIn("moving")].phase = "waitOpen"]
    /\ Out("none", <<BlockPlace(craftingTablePos)>>, <<>>)
    /\ UNCHANGED <<connected, ended, health, blocks, simVars, digs, slots,
                   craftingTablePos, selectedSlot>>

\* bot.moveTo rejects: the craft call rejects with the route's error
GotoRejects ==
    /\ FirstIn("moving") # 0
    /\ crafts' = Remove(crafts, FirstIn("moving"))
    /\ Out("Unreachable", <<>>, <<>>)
    /\ UNCHANGED <<connected, ended, health, blocks, simVars, digs, slots,
                   craftingTablePos, selectedSlot>>

\* a window_open packet: no handler of this file listens to the client's
\* 'window_open', and nothing emits 'window_open' on the bot
WindowOpen ==
    /\ Receiving
    /\ Out("none", <<>>, <<>>)
    /\ UNCHANGED <<connected, ended, health, blocks, simVars, actVars>>

----------------------------------------------------------------------------
(* Entities *)

EntityIds == {1}
EntityPositions == { Vec(100, 110, 0), Vec(400, 110, 0) }
\* entity_move deltas, in 1/32 of a block: three blocks either way along x
MoveDeltas == {-96, 96}

MapSet(m, k, v) == [x \in DOMAIN m \cup {k} |-> IF x = k THEN v ELSE m[x]]
MapDelete(m, k) == [x \in DOMAIN m \ {k} |-> m[x]]

\* the identities of the objects held under id outside the entities map:
\* the one Combat.target refers to and the one the players map holds
HeldRefs(id) ==
    (IF target.id = id THEN {target.ref} ELSE {})
      \cup (IF id \in DOMAIN players THEN {players[id].ref} ELSE {})

\* the identity of the object a spawn handler creates: another object than
\* those held under its id.  Identities are compared between the target,
\* the players' entry and the entities' entry only, so three are enough.
NewRef(id) == CHOOSE n \in 0..2 : n \notin HeldRefs(id) /\
                  \A k \in 0..2 : k \notin HeldRefs(id) => n <= k

\* bot.client.on('spawn_entity'): the tracker stores a new object under id
SpawnEntity(id, p) ==
    /\ Receiving
    /\ entities' = MapSet(entities, id,
                          [id |-> id, position |-> p, metadata |-> "none",
                           ref |-> NewRef(id)])
    /\ Out("none", <<>>, <<>>)
    /\ UNCHANGED <<connected, ended, health, blocks, position, velocity, yaw,
                   players, target, jumpCooldown, attackCooldown, actVars>>

\* bot.client.on('spawn_player'): one new object, stored in both maps
SpawnPlayer(id, p) ==
    /\ Receiving
    /\ LET player == [id |-> id, position |-> p, metadata |-> "none",
                      ref |-> NewRef(id)]
       IN  /\ players' = MapSet(players, id, player)
           /\ entities' = MapSet(entities, id, player)
    /\ Out("none", <<>>, <<>>)
    /\ UNCHANGED <<connected, ended, health, blocks, position, velocity, yaw,
                   target, jumpCooldown, attackCooldown, actVars>>

\* a map after the delete calls for the ids of an entity_destroy packet
DeleteAll(m, ids) == [x \in DOMAIN m \ ids |-> m[x]]

\* an entity_destroy handler without its this.players.delete(entityId)
PlayersKept(pl, ids) == pl

\* the players map after the entity_destroy handler
PlayersAfterDestroy(pl, ids) == DeleteAll(pl, ids)

\* bot.client.on('entity_destroy'), for the ids of packet.entityIds
EntityDestroy(ids) ==
    /\ Receiving
    /\ entities' = DeleteAll(entities, ids)
    /\ players' = PlayersAfterDestroy(players, ids)
    /\ Out("none", <<>>, <<>>)
    /\ UNCHANGED <<connected, ended, health, blocks, position, velocity, yaw,
                   target, jumpCooldown, attackCooldown, actVars>>

\* the entities map holds under id the object the players map holds: a
\* change made through the one shows through the other
SameObject(id) ==
    /\ id \in DOMAIN entities /\ id \in DOMAIN players
    /\ entities[id].ref = players[id].ref

\* bot.client.on('entity_move'): position.add(dX / 32, dY / 32, dZ / 32)
EntityMove(id, dX) ==
    /\ Receiving
    /\ IF id \in DOMAIN entities
       THEN LET p == Offset(entities[id].position, (dX * 100) \div 32, 0, 0) IN
            /\ p \in EntityPositions
            /\ entities' = [entities EXCEPT ![id].position = p]
            /\ players' = IF SameObject(id)
                          THEN [players EXCEPT ![id].position = p]
                          ELSE players
       ELSE UNCHANGED <<entities, players>>
    /\ Out("none", <<>>, <<>>)
    /\ UNCHANGED <<connected, ended, health, blocks, position, velocity, yaw,
                   target, jumpCooldown, attackCooldown, actVars>>

\* the metadata an entity_metadata packet carries
MetadataValues == {"flags"}

\* client.on('entity_metadata'): EntityTracker.updateMetadata
EntityMetadata(id, md) ==
    /\ Receiving
    /\ IF id \in DOMAIN entities
       THEN /\ entities' = [entities EXCEPT ![id].metadata = md]
            /\ players' = IF SameObject(id)
                          THEN [players EXCEPT ![id].metadata = md]
                          ELSE players
       ELSE UNCHANGED <<entities, players>>
    /\ Out("none", <<>>, <<>>)
    /\ UNCHANGED <<connected, ended, health, blocks, position, velocity, yaw,
                   target, jumpCooldown, attackCooldown, actVars>>

----------------------------------------------------------------------------
(* Physics *)

Gravity == -8
JumpSpeed == 42
CooldownTicks == 10
GroundProbe == -10
WalkSpeed == 10
SprintSpeed == 13

\* Physics._isOnGround
IsOnGround(b, p) == GetBlock(b, Offset(p, 0, GroundProbe, 0)) # 0

\* yaw in quarter turns: 0, pi/2, pi, -pi/2
Yaws == 0..3
Sin(w) == <<0, 1, 0, -1>>[w + 1]
Cos(w) == <<1, 0, -1, 0>>[w + 1]

Abs(n) == IF n < 0 THEN -n ELSE n

\* Physics.move: the velocity it sets
MoveVelocity(v, w, x, z, sprint) ==
    LET speed == IF sprint THEN SprintSpeed ELSE WalkSpeed
    IN  Vec((x * Sin(w) - z * Cos(w)) * speed, v[2],
            (z * Sin(w) + x * Cos(w)) * speed)

\* a decrement without its guard
JumpCooldownStepUnguarded(c) == c - 1

\* the jump cooldown after the 'Update jump cooldown' step of _update
JumpCooldownStep(c) == IF c > 0 THEN c - 1 ELSE c

\* the velocity after the 'Apply gravity' step of _update
ApplyGravity(b, p, v) ==
    IF ~IsOnGround(b, p) THEN Vec(v[1], v[2] + Gravity, v[3])
    ELSE IF v[2] < 0 THEN Vec(v[1], 0, v[3])
    ELSE v

InBounds(p, v) ==
    /\ Abs(p[1]) <= MaxH /\ Abs(p[3]) <= MaxH /\ Abs(p[2]) <= MaxY
    /\ v[2] >= -MaxFall

PositionReport(b, p) ==
    [cmd |-> "position", position |-> p, onGround |-> IsOnGround(b, p)]

\* an _update without its connected check
PhysicsNeverIdle == FALSE

\* whether Physics._update returns at once
PhysicsIdle == ~connected

\* the setInterval callback of Physics: _update
PhysicsUpdate ==
    IF PhysicsIdle
    THEN /\ Out("none", <<>>, <<>>)
         /\ UNCHANGED <<connected, ended, health, blocks, simVars, actVars>>
    ELSE LET v == ApplyGravity(blocks, position, velocity)
             p == VecAdd(position, v)
         IN  /\ InBounds(p, v)
             /\ velocity' = v
             /\ position' = p
             /\ jumpCooldown' = JumpCooldownStep(jumpCooldown)
             /\ Out("none", <<PositionReport(blocks, p)>>, <<>>)
             /\ UNCHANGED <<connected, ended, health, blocks, yaw, entities,
                            players, target, attackCooldown, actVars>>

\* Physics.jump
Jump ==
    /\ IF IsOnGround(blocks, position) /\ jumpCooldown = 0
       THEN /\ velocity' = Vec(velocity[1], JumpSpeed, velocity[3])
            /\ jumpCooldown' = CooldownTicks
       ELSE UNCHANGED <<velocity, jumpCooldown>>
    /\ Out("ok", <<>>, <<>>)
    /\ UNCHANGED <<connected, ended, health, blocks, position, yaw, entities,
                   players, target, attackCooldown, actVars>>

\* Physics.move(x, z, sprint)
Move(x, z, sprint) ==
    /\ velocity' = MoveVelocity(velocity, yaw, x, z, sprint)
    /\ Out("ok", <<>>, <<>>)
    /\ UNCHANGED <<connected, ended, health, blocks, position, yaw, entities,
                   players, target, jumpCooldown, attackCooldown, actVars>>

----------------------------------------------------------------------------
(* Combat *)

\* MinecraftBot.lookAt: the yaw it sets, and the command it writes
\* Math.atan2(-delta.x, -delta.z), to the nearest quarter turn; a delta of 0
\* negates to -0, and atan2(-0, -0) is -pi
LookYaw(pos, t) ==
    LET dx == t[1] - pos[1]
        dz == t[3] - pos[3]
    IN  IF Abs(dz) >= Abs(dx) THEN (IF dz >= 0 THEN 2 ELSE 0)
        ELSE (IF dx < 0 THEN 1 ELSE 3)
Look(w) == [cmd |-> "look", yaw |-> w]
\* MinecraftBot.attack
UseEntity(id) == [cmd |-> "use_entity", target |-> id, action |-> 1]

\* an in-range branch that leaves a cooldown of 0 as it is
AttackCooldownStepNoReset(c) == IF c = 0 THEN c ELSE c - 1

\* the attack cooldown after the in-range branch of Combat._update
AttackCooldownStep(c) == IF c = 0 THEN CooldownTicks ELSE c - 1

\* this.bot.entityTracker.entities.get(id) finds an entity
Tracked(id) == id \in DOMAIN entities

\* whether Combat._update returns at once
CombatIdle == ~connected \/ target = NoTarget

\* the setInterval callback of Combat: _update
CombatUpdate ==
    IF CombatIdle
    THEN /\ Out("none", <<>>, <<>>)
         /\ UNCHANGED <<connected, ended, health, blocks, simVars, actVars>>
    ELSE IF ~Tracked(target.id)
    THEN /\ target' = NoTarget
         /\ Out("none", <<>>, <<>>)
         /\ UNCHANGED <<connected, ended, health, blocks, position, velocity,
                        yaw, entities, players, jumpCooldown, attackCooldown,
                        actVars>>
    ELSE LET e == entities[target.id] IN
         IF FartherThanReach(e.position, position)
         THEN LET w == LookYaw(position, Offset(e.position, 0, 100, 0)) IN
              /\ velocity' = MoveVelocity(velocity, yaw, 0, 1, TRUE)
              /\ yaw' = w
              /\ Out("none", <<Look(w)>>, <<>>)
              /\ UNCHANGED <<connected, ended, health, blocks, position,
                             entities, players, target, jumpCooldown,
                             attackCooldown, actVars>>
         ELSE /\ attackCooldown' = AttackCooldownStep(attackCooldown)
              /\ Out("none",
                     IF attackCooldown = 0 THEN <<UseEntity(target.id)>> ELSE <<>>,
                     <<>>)
              /\ UNCHANGED <<connected, ended, health, blocks, position,
                             velocity, yaw, entities, players, target,
                             jumpCooldown, actVars>>

\* Combat.attackEntity(entity), on an entity of the tracker
AttackEntity(id) ==
    /\ id \in DOMAIN entities
    /\ target' = [id |-> id, ref |-> entities[id].ref]
    /\ LET w == LookYaw(position, Offset(entities[id].position, 0, 100, 0)) IN
       /\ yaw' = w
       /\ Out("ok", <<Look(w), UseEntity(id)>>, <<>>)
    /\ UNCHANGED <<connected, ended, health, blocks, position, velocity,
                   entities, players, jumpCooldown, attackCooldown, actVars>>

\* Combat.stop
Stop ==
    /\ target' = NoTarget
    /\ Out("ok", <<>>, <<>>)
    /\ UNCHANGED <<connected, ended, health, blocks, position, velocity, yaw,
                   entities, players, jumpCooldown, attackCooldown, actVars>>

----------------------------------------------------------------------------
(* Specifications.  The program is one event loop; Next is all of it.  Its  *)
(* subsystems share only the connection, the block map and the position,    *)
(* so each is also checked on its own, over richer inputs than the whole    *)
(* allows: mining (DigSpec), crafting (CraftSpec), the hotbar (InvSpec),    *)
(* physics (PhysSpec), combat (CombatSpec), the two tick callbacks          *)
(* together (TickSpec), and the packet handlers together (EventSpec).       *)

PacketYaws == {0}
MoveInputs == { <<0, 0>>, <<0, 1>> }
\* the block the bot of PacketPositions stands on
GroundLocs == { <<0, 100, 0>> }
\* the position packet that puts the bot on that block
GroundPositions == { Vec(0, 110, 0) }
\* entities within strike range of every position of the bot
NearPositions == { Vec(100, 110, 0) }

\* the connection
Gateway == Connect \/ Disconnect \/ BotDisconnect

\* mining, the block map and health
DigNext ==
    \/ Gateway
    \/ \E h \in HealthValues : Health(h)
    \/ \E l \in BlockLocs : MineBlock(l)
    \/ \E l \in BlockLocs, t \in BlockTypes : BlockChange(l, t)
    \/ \E i \in 1..MaxDigs : DigTimeout(i)

\* crafting and the inventory
CraftNext ==
    \/ Gateway
    \/ \E i \in 1..NumSlots, item \in Items : SetSlot(i, item)
    \/ \E items \in [1..NumSlots -> Items] : WindowItems(items)
    \/ \E p \in TablePositions : SetCraftingTablePosition(p)
    \/ \E n \in ItemNames, c \in CraftCounts : Craft(n, c)
    \/ GotoResolves
    \/ GotoRejects
    \/ WindowOpen

\* the inventory and the hotbar
InvNext ==
    \/ Gateway
    \/ \E i \in 1..NumSlots, item \in Items : SetSlot(i, item)
    \/ \E items \in [1..NumSlots -> Items] : WindowItems(items)
    \/ \E slot \in SlotInputs : SelectSlot(slot)

\* physics: the tick, the controls and the position correction
PhysNext ==
    \/ Gateway
    \/ \E l \in GroundLocs, t \in BlockTypes : BlockChange(l, t)
    \/ \E p \in PacketPositions, w \in PacketYaws : Position(p, w)
    \/ PhysicsUpdate
    \/ Jump
    \/ \E m \in MoveInputs, sprint \in BOOLEAN : Move(m[1], m[2], sprint)

\* the ids the server gives a new entity: an id is unique while its entity
\* lives, and free again once the entity is destroyed
FreeIds == EntityIds \ DOMAIN entities

\* combat: the tick, the controls and the entity tracker
CombatNext ==
    \/ Gateway
    \/ \E p \in PacketPositions, w \in PacketYaws : Position(p, w)
    \/ \E id \in FreeIds, p \in EntityPositions : SpawnEntity(id, p)
    \/ \E id \in EntityIds : EntityDestroy({id})
    \/ \E id \in EntityIds, d \in MoveDeltas : EntityMove(id, d)
    \/ CombatUpdate
    \/ \E id \in EntityIds : AttackEntity(id)
    \/ Stop

\* an item of the hotbar, and a window without items
EventItems == { [name |-> "stick", count |-> 1] }
EmptyWindow == [i \in 1..NumSlots |-> NoItem]

\* every handler of an inbound packet, with the controls that set the
\* velocity of the bot
EventNext ==
    \/ Connect
    \/ Disconnect
    \/ \E h \in HealthValues : Health(h)
    \/ \E l \in GroundLocs, t \in BlockTypes : BlockChange(l, t)
    \/ \E p \in GroundPositions, w \in PacketYaws : Position(p, w)
    \/ \E i \in 1..NumSlots, item \in EventItems : SetSlot(i, item)
    \/ WindowItems(EmptyWindow)
    \/ WindowOpen
    \/ \E id \in FreeIds, p \in NearPositions : SpawnEntity(id, p)
    \/ \E id \in EntityIds : EntityDestroy({id})
    \/ \E id \in EntityIds, d \in MoveDeltas : EntityMove(id, d)
    \/ \E id \in EntityIds, md \in MetadataValues : EntityMetadata(id, md)
    \/ Jump
    \/ \E m \in MoveInputs, sprint \in BOOLEAN : Move(m[1], m[2], sprint)

\* the ids of the entity tracker's packets
TrackerIds == {1, 2}

\* the entity tracker: every handler of it, over any ids
TrackerNext ==
    \/ Connect
    \/ Disconnect
    \/ \E id \in TrackerIds, p \in EntityPositions : SpawnEntity(id, p)
    \/ \E id \in TrackerIds, p \in EntityPositions : SpawnPlayer(id, p)
    \/ \E ids \in SUBSET TrackerIds : EntityDestroy(ids)
    \/ \E id \in TrackerIds, d \in MoveDeltas : EntityMove(id, d)
    \/ \E id \in TrackerIds, md \in MetadataValues : EntityMetadata(id, md)

\* both tick callbacks, with the target in strike range and alive (the
\* destruction of entities is part of CombatNext)
TickNext ==
    \/ Connect
    \/ Disconnect
    \/ \E l \in GroundLocs, t \in BlockTypes : BlockChange(l, t)
    \/ \E p \in GroundPositions, w \in PacketYaws : Position(p, w)
    \/ \E id \in FreeIds, p \in NearPositions : SpawnEntity(id, p)
    \/ PhysicsUpdate
    \/ CombatUpdate
    \/ Jump
    \/ \E id \in EntityIds : AttackEntity(id)
    \/ Stop

Next ==
    DigNext \/ CraftNext \/ InvNext \/ PhysNext \/ CombatNext \/ EventNext
      \/ TrackerNext

Spec == Init /\ [][Next]_vars
DigSpec == Init /\ [][DigNext]_vars
CraftSpec == Init /\ [][CraftNext]_vars
InvSpec == Init /\ [][InvNext]_vars
PhysSpec == Init /\ [][PhysNext]_vars
CombatSpec == Init /\ [][CombatNext]_vars
TickSpec == Init /\ [][TickNext]_vars
EventSpec == Init /\ [][EventNext]_vars
TrackerSpec == Init /\ [][TrackerNext]_vars

\* the timers of Node.js fire: a setTimeout callback that is due runs
DigFairSpec == DigSpec /\ \A i \in 1..MaxDigs : WF_vars(DigTimeout(i))

\* the collaborators of a craft answer: the walk to the table ends, and
\* the server's window_open packet is delivered
CraftFairSpec ==
    CraftSpec /\ WF_vars(GotoResolves \/ GotoRejects) /\ WF_vars(WindowOpen)

----------------------------------------------------------------------------
(* Properties *)

InSeq(x, seq) == \E k \in 1..Len(seq) : seq[k] = x
Events(seq) == [k \in 1..Len(seq) |-> seq[k].event]
Cmds(seq) == {seq[k].cmd : k \in 1..Len(seq)}

\* C1: a Dig resolves exactly on a block-change at its coordinate that
\* reports air: a pending mineBlock becomes resolved in a step if and only
\* if that step is the block_change handler run on (its location, air).
C1_DigResolvesOnlyOnAir ==
    [][\A i \in 1..MaxDigs :
         Pending(digs[i]) =>
           (~Pending(digs'[i]) <=> BlockChange(digs[i].loc, 0))]_vars

\* C2: every issued Dig eventually resolves while the timers keep running,
\* also when no block-change for its coordinate is ever delivered.
C2_DigEventuallyResolves ==
    \A i \in 1..MaxDigs : Pending(digs[i]) ~> ~Pending(digs[i])

ActiveDigAt(l) == \E i \in 1..MaxDigs : Pending(digs[i]) /\ digs[i].loc = l

OneActiveDigPerCoordinate ==
    \A i, j \in 1..MaxDigs :
        (i # j /\ Pending(digs[i]) /\ Pending(digs[j])) => digs[i].loc # digs[j].loc

\* C3: mineBlock on a coordinate with an active Dig fails at once with
\* AlreadyInProgress, writes no start-dig and leaves the calls in flight as
\* they are; so no two active Digs share a coordinate.
C3_SecondDigRejected ==
    [][/\ \A l \in BlockLocs :
            (ActiveDigAt(l) /\ MineBlock(l)) =>
              (outcome' = "AlreadyInProgress" /\ written' = <<>> /\ digs' = digs)
       /\ OneActiveDigPerCoordinate']_vars

\* C4: 'death' is emitted by the health update that brings health from above
\* zero to zero or below, and by no other step: later updates with
\* health <= 0 emit none.
C4_DeathEmittedOnce ==
    [][InSeq("death", Events(emitted')) <=> (health > 0 /\ health' <= 0)]_vars

\* C5: in every reachable state the jump cooldown and the attack cooldown
\* are integers from 0 to their reset value 10.
C5_CooldownsInRange ==
    /\ jumpCooldown \in 0..CooldownTicks
    /\ attackCooldown \in 0..CooldownTicks

\* both cooldowns are running down: each was reset and has since been
\* decremented nine times
C5_Witness == jumpCooldown = 1 /\ attackCooldown = 1

\* the quantity of an item the inventory holds, over all its slots
RECURSIVE HaveUpTo(_, _, _)
HaveUpTo(sl, name, n) ==
    IF n = 0 THEN 0
    ELSE HaveUpTo(sl, name, n - 1)
           + (IF sl[n].name = name THEN sl[n].count ELSE 0)
Have(sl, name) == HaveUpTo(sl, name, Len(sl))

\* some ingredient is not in the inventory in the quantity count crafts need
Lacking(sl, recipe, count) ==
    \E k \in 1..Len(recipe.ingredients) :
        Have(sl, recipe.ingredients[k].item) < recipe.ingredients[k].count * count

KnownItems == ItemNames \cap DOMAIN Recipes

\* C6 as claimed: craft of a known recipe with an ingredient lacking fails
\* with MissingIngredient, writes no command and leaves the inventory as is.
C6_LackingFailsMissingIngredient ==
    [][\A n \in KnownItems, c \in CraftCounts :
         (Lacking(slots, Recipes[n], c) /\ Craft(n, c)) =>
           (outcome' = "MissingIngredient" /\ written' = <<>> /\ slots' = slots)]_vars

\* the error craft throws when an ingredient is lacking
LackingError(recipe) ==
    IF recipe.requiresCraftingTable /\ craftingTablePos = NoPos
    THEN "StationRequired" ELSE "MissingIngredient"

\* C6: craft of a known recipe with an ingredient lacking fails before any
\* command is written - with MissingIngredient, or with the crafting-table
\* error when the recipe needs a table and no table position is set - and
\* leaves the inventory and the suspended crafts as they are.
C6_LackingFailsBeforeAnyCommand ==
    [][\A n \in KnownItems, c \in CraftCounts :
         Lacking(slots, Recipes[n], c) =>
           /\ CraftStart(n, c).outcome = LackingError(Recipes[n])
           /\ CraftStart(n, c).written = <<>>
           /\ Craft(n, c) =>
                /\ outcome' = LackingError(Recipes[n])
                /\ written' = <<>>
                /\ slots' = slots
                /\ crafts' = crafts]_vars

\* a craft has just failed for want of planks the inventory holds some of
C6_Witness ==
    /\ outcome = "MissingIngredient"
    /\ written = <<>>
    /\ Have(slots, "planks") > 0
    /\ Lacking(slots, Recipes["stick"], 2)

\* C7: a block-change event leaves getBlock at its coordinate equal to its
\* type and getBlock elsewhere as it was (last write wins), and applying
\* the same event again leaves the block map as it is (idempotence).
C7_BlockChangeLastWriteWins ==
    [][\A l \in BlockLocs, t \in BlockTypes :
         BlockChange(l, t) =>
           /\ GetBlock(blocks', l) = t
           /\ \A k \in BlockLocs \ {l} : GetBlock(blocks', k) = GetBlock(blocks, k)
           /\ SetBlock(blocks', l, t) = blocks']_vars

\* block-changes have rewritten one cell and written another
C7_Witness ==
    /\ Events(emitted) = <<"blockUpdate">>
    /\ \E l, k \in BlockLocs :
         /\ l # k
         /\ Key(l) \in DOMAIN blocks /\ Key(k) \in DOMAIN blocks
         /\ blocks[Key(l)] = 0 /\ blocks[Key(k)] = 1

\* C8: right after a position packet is handled the position is the
\* packet's, whatever the ticks had made of it.
C8_PositionIsAuthoritative ==
    [][\A p \in PacketPositions, w \in PacketYaws :
         Position(p, w) => position' = p]_vars

\* a position packet has just overridden the position of a bot in motion
C8_Witness ==
    /\ Events(emitted) = <<"position">>
    /\ position \in PacketPositions
    /\ velocity[2] < 0 /\ velocity[1] # 0

SimulationCmds == {"position", "look", "use_entity"}

\* C9: once the disconnect event is handled, no physics or combat tick
\* changes position, velocity or a cooldown, or writes a position-report,
\* look or attack command.
C9_NoTickAfterDisconnect ==
    [][(Disconnected /\ (PhysicsUpdate \/ CombatUpdate)) =>
         /\ UNCHANGED <<position, velocity, jumpCooldown, attackCooldown>>
         /\ Cmds(written') \cap SimulationCmds = {}]_vars

\* a tick has run after the disconnect, with the bot in the air, both
\* cooldowns running and a target set
C9_Witness ==
    /\ Disconnected
    /\ outcome = "none" /\ emitted = <<>>
    /\ target # NoTarget /\ Tracked(target.id)
    /\ jumpCooldown > 0 /\ attackCooldown > 0
    /\ ~IsOnGround(blocks, position)

\* C10: when the disconnect event is handled every pending action is
\* resolved: right after it no mineBlock is pending and no craft is waiting
\* for its container.
C10_NothingPendingAfterDisconnect ==
    [][Disconnect =>
         (\A i \in 1..MaxDigs : ~Pending(digs'[i])) /\ crafts' = <<>>]_vars

\* C11: the promise of a mineBlock call is resolved once, however many
\* block-changes arrive for its coordinate, and its blockUpdate listener is
\* removed at that resolution: the registered onBlockBreak listeners are
\* exactly the calls in flight that are not resolved yet.
C11_ListenersAreUnresolvedDigs ==
    /\ \A i \in 1..MaxDigs : digs[i].resolves <= 1
    /\ {i \in 1..MaxDigs : digs[i].listening} = {i \in 1..MaxDigs : Unresolved(digs[i])}

\* a block-change has just resolved one call, whose timer is still to fire,
\* while another call, for another coordinate, keeps listening
C11_Witness ==
    /\ Events(emitted) = <<"blockUpdate">>
    /\ \E i, j \in 1..MaxDigs :
         /\ digs[i].resolves = 1 /\ ~digs[i].listening /\ digs[i].timer
         /\ digs[j].listening /\ digs[j].resolves = 0
         /\ GetBlock(blocks, digs[i].loc) = 1

\* what the combat tick does about the entity the tracker holds under the
\* target's id
Pursues == velocity' = MoveVelocity(velocity, yaw, 0, 1, TRUE)
Attacks == "use_entity" \in Cmds(written')
InStrikeRange == ~FartherThanReach(entities[target.id].position, position)

\* C12: a combat tick with a target set clears the target and writes
\* nothing when the target's id is no longer in the tracker; sets the
\* pursuit velocity, turns to the target and writes no attack when the
\* target is farther than 3 blocks; and otherwise writes an attack exactly
\* when the attack cooldown is 0, and then sets the cooldown to 10.
C12_CombatTick ==
    [][(CombatUpdate /\ connected /\ target # NoTarget) =>
         IF ~Tracked(target.id)
         THEN target' = NoTarget /\ written' = <<>>
         ELSE IF ~InStrikeRange
         THEN /\ Pursues
              /\ yaw' = LookYaw(position,
                                Offset(entities[target.id].position, 0, 100, 0))
              /\ written' = <<Look(yaw')>>
              /\ ~Attacks
         ELSE /\ Attacks <=> attackCooldown = 0
              /\ Attacks => attackCooldown' = CooldownTicks
              /\ target' = target]_vars

\* a combat tick has just attacked the target in strike range
C12_Witness ==
    /\ connected /\ outcome = "none"
    /\ target # NoTarget /\ Tracked(target.id)
    /\ written = <<UseEntity(target.id)>>
    /\ attackCooldown = CooldownTicks

\* the tracker holds another object under the target's id than the one
\* Combat.target refers to: the target's entity is gone and its id reused
TargetIdReused == Tracked(target.id) /\ entities[target.id].ref # target.ref

\* C13: when the target's entity has been destroyed and a new entity has
\* been spawned under the same id, the combat tick neither pursues nor
\* attacks the new entity.
C13_NoStaleTarget ==
    [][(CombatUpdate /\ connected /\ target # NoTarget /\ TargetIdReused) =>
         /\ Cmds(written') \cap {"look", "use_entity"} = {}
         /\ velocity' = velocity /\ yaw' = yaw]_vars

\* a craft waits for the window of its crafting table to open
WaitsForWindow == FirstIn("waitOpen") # 0

\* the step writes a window_click of a crafting-table craft (window 1)
ClicksTable ==
    \E k \in 1..Len(written') :
        written'[k].cmd = "window_click" /\ written'[k].windowId = 1

\* C14: a craft that needs the crafting table writes no window_click until
\* the window_open packet for the table arrives after its open request,
\* and when that packet is delivered the waiting craft writes its clicks.
C14_ClicksFollowWindowOpen ==
    [][/\ ClicksTable => (WindowOpen /\ WaitsForWindow)
       /\ (WindowOpen /\ WaitsForWindow) => ClicksTable]_vars

\* C15: a craft that has asked for the crafting table to be opened
\* eventually writes close_window, whatever happens to its clicks or to
\* the inventory while it waits - unless the connection goes down first.
C15_CraftEventuallyCloses ==
    WaitsForWindow ~> ("close_window" \in Cmds(written) \/ ~Receiving)

\* the block cell that holds a point: the floor of each coordinate
CellOf(p) == <<(p[1] \div 100) * 100, (p[2] \div 100) * 100, (p[3] \div 100) * 100>>

\* the cell directly beneath the bot: the one that holds the point a tenth
\* of a block under its position
CellBeneath(p) == CellOf(Offset(p, 0, GroundProbe, 0))

\* C16: on a tick with a non-air block in the cell directly beneath the bot
\* gravity is not added and a negative vertical velocity is set to zero
\* before the position is integrated, so y does not decrease on that tick;
\* with air beneath, gravity is added.
C16_GroundedNoFall ==
    [][(PhysicsUpdate /\ connected) =>
         IF GetBlock(blocks, CellBeneath(position)) # 0
         THEN /\ velocity'[2] = (IF velocity[2] < 0 THEN 0 ELSE velocity[2])
              /\ position'[2] >= position[2]
         ELSE velocity'[2] = velocity[2] + Gravity]_vars

\* C17: while connected, a tick lowers each cooldown that is positive at
\* its start by exactly 1 - the physics callback the jump cooldown, the
\* combat callback the attack cooldown - whether or not a target is set,
\* tracked or in range.
C17_CooldownsCountDown ==
    [][connected =>
         /\ (PhysicsUpdate /\ jumpCooldown > 0) =>
               jumpCooldown' = jumpCooldown - 1
         /\ (CombatUpdate /\ attackCooldown > 0) =>
               attackCooldown' = attackCooldown - 1]_vars

\* C18: when the listeners of a block-change run - the onBlockBreak that
\* resolves a mineBlock call among them - getBlock at the event's
\* coordinate already returns the event's block type.
C18_StoreUpdatedBeforeEmit ==
    \A k \in 1..Len(emitted) :
        emitted[k].event = "blockUpdate" => emitted[k].stored = emitted[k].block

\* a block-change that rewrote a cell from 1 to 0 has just resolved the
\* mineBlock call for that cell
C18_Witness ==
    /\ Len(emitted) = 1 /\ emitted[1].event = "blockUpdate"
    /\ emitted[1].block = 0 /\ emitted[1].stored = 0
    /\ Key(emitted[1].pos) \in DOMAIN blocks
    /\ \E i \in 1..MaxDigs :
         /\ digs[i].loc = emitted[1].pos
         /\ digs[i].resolves = 1 /\ ~digs[i].listening

\* C19: selectSlot with a slot outside 0..8 fails, leaves selectedSlot as it
\* is and writes nothing; with a slot in 0..8 it sets selectedSlot to it and
\* writes one held_item_slot command carrying it.  So selectedSlot stays
\* in 0..8.
C19_SelectSlot ==
    [][/\ \A slot \in SlotInputs :
            SelectSlot(slot) =>
              IF slot \in 0..8
              THEN /\ outcome' = "ok"
                   /\ selectedSlot' = slot
                   /\ written' = <<[cmd |-> "held_item_slot", slot |-> slot]>>
              ELSE /\ outcome' = "SlotOutOfRange"
                   /\ selectedSlot' = selectedSlot
                   /\ written' = <<>>
       /\ selectedSlot' \in 0..8]_vars

\* a selectSlot out of the hotbar has just failed, after slot 8 was selected
C19_Witness ==
    /\ outcome = "SlotOutOfRange" /\ written = <<>>
    /\ selectedSlot = 8

\* C20: no handler of an inbound packet changes the velocity - a position
\* correction leaves it as it is - : a step that changes it is a tick or
\* one of the controls move and jump.
C20_VelocityFrame ==
    [][velocity' # velocity =>
         \/ PhysicsUpdate
         \/ CombatUpdate
         \/ Jump
         \/ \E m \in MoveInputs, sprint \in BOOLEAN : Move(m[1], m[2], sprint)]_vars

\* the health handler has just run on a bot that walks and rises
C20_Witness ==
    /\ Events(emitted) = <<"health", "death">>
    /\ velocity[1] # 0 /\ velocity[2] > 0

\* C21: no finish-dig is written for a mineBlock call once its promise is
\* resolved: the timer of a call writes its finish-dig only while the call
\* is unresolved.
C21_NoFinishDigAfterResolve ==
    [][\A i \in 1..MaxDigs :
         (DigTimeout(i) /\ InSeq(FinishDig(digs[i].loc), written')) =>
           Unresolved(digs[i])]_vars

\* C22: every id of the players map is an id of the entities map, and the
\* ids an entity_destroy packet names are in neither map right after it.
C22_PlayersAreEntities ==
    [][/\ DOMAIN players' \subseteq DOMAIN entities'
       /\ \A ids \in SUBSET TrackerIds :
            EntityDestroy(ids) =>
              ids \cap (DOMAIN entities' \cup DOMAIN players') = {}]_vars

\* an entity_destroy has just removed a player and left another, whose
\* entity has moved and got metadata since its spawn
C22_Witness ==
    /\ outcome = "none" /\ written = <<>> /\ emitted = <<>>
    /\ DOMAIN players = {2} /\ DOMAIN entities = {2}
    /\ players[2].metadata = "flags" /\ players[2] = entities[2]
    /\ players[2].position = Vec(400, 110, 0)

====
